---- MODULE Spec2Model ----
(***************************************************************************)
(* Model of the tractive-sandbox backend: the client of the Tractive API,  *)
(* src/backend/src/services/tractiveService.ts (class TractiveService),    *)
(* the tracker routes that drive it and the trail statistics of            *)
(* GoogleMapsService (both in src/unnamed/part_000).                       *)
(*                                                                         *)
(* One TractiveService instance is shared by the callers in Procs.  Node   *)
(* runs the callers on one event loop: a caller suspends only while an     *)
(* upstream request is in flight, and everything the code does between     *)
(* the arrival of a response and the sending of the next request (promise  *)
(* continuations, the axios response interceptor, the catch blocks) is one *)
(* uninterrupted step.  Hence one action per operation start and one per   *)
(* response arrival.                                                       *)
(***************************************************************************)
EXTENDS Integers, Sequences, FiniteSets, TLC

\* -------------------------------------------------------- program constants
\* TRACTIVE_MAX_RETRIES of the documented configuration
MaxAttempts == 3

\* ------------------------------------------------------------------ bounds
Procs == {"c1", "c2"}
MaxTime == 2
MaxStack == 2
MaxSamples == 2
MaxElevations == 4
TrackerIds == {"", "t1"}
Tokens == {1, 2}
UserIds == {1, 2}
Ranges == {<<1, 2>>, <<2, 1>>}

\* JS null / undefined / missing field / empty string
Null == 0

VARIABLES
    accessToken,    \* this.accessToken (Null or a token)
    userId,         \* this.userId
    sessionExpiry,  \* this.sessionExpiry (Null or a time)
    authHeader,     \* axiosInstance.defaults.headers.common['Authorization']
    now,            \* Date.now()
    pc,             \* per caller: "idle", "busy" (awaiting upstream), "done"
    op,             \* per caller: the operation in progress
    args,           \* per caller: arguments of the operation in progress
    pending,        \* per caller: stack of requests; the top one is in
                    \* flight, those below wait in the interceptor for
                    \* authenticate() to return
    answer,         \* per caller: the last upstream answer it received
                    \* (its status, and whether its body has an access_token)
    result,         \* per caller: value returned or message of the Error thrown
    nDomain,        \* per caller: domain requests sent during the
                    \* operation, the re-sent ones included
    ret,            \* per caller: the data of the value the operation returned
    route,          \* per caller: the route handler serving its HTTP request
    http,           \* per caller: the HTTP response of the route
    body,           \* per caller: the body of the last answer to its
                    \* GET /tracker/:id/positions
    logged,         \* the secrets that console.error has written so far
    positions,      \* calculateTrailStats: argument positions
    elevations,     \* calculateTrailStats: argument elevations
    stats,          \* calculateTrailStats: the TrailStats returned
    attempt,        \* retry envelope: failed attempts of the request so far
    delay,          \* retry envelope: what the backoff policy returned last
    ceiling,        \* retry envelope: the configured ceiling of the delay
    requests,       \* retry envelope: requests sent so far
    retry,          \* retry envelope: "idle", "inflight", "sleeping",
                    \* "succeeded", "gaveUp"
    authSession,    \* the auth router's own TractiveService instance: its
                    \* accessToken, userId, sessionExpiry and default
                    \* Authorization header
    authStack,      \* auth router: authenticate() calls of that instance
                    \* that await POST /auth/login, the nested ones included
    authHttp,       \* auth router: status of the response of
                    \* POST /login-tractive (0 while none is sent)
    mounted,        \* MapContainer: the component has rendered once
    listening,      \* MapContainer: its listener of 'google-maps-loaded'
                    \* is registered
    isGoogleMapsLoaded, \* MapContainer: its state of that name
    mapInstanceRef, \* MapContainer: a google.maps.Map has been created
    props,          \* MapContainer: the props of the last render
    polylineRef,    \* MapContainer: where the polyline the ref holds is
                    \* attached: "none" (ref is null), "current" (the map
                    \* of mapInstanceRef) or "old" (a map created before it)
    geofenceOverlaysRef, \* MapContainer: per geofence, where the overlay
                    \* the ref holds for it is attached ("none": not held)
    circles,        \* MapContainer: per geofence, the circles attached to
                    \* the current map (no ref holds them)
    geofenceAlerts, \* App: the alert list
    timers,         \* App: the pending auto-remove timeouts
    clock           \* App: wall clock, in steps of 10 s

\* the variables of the client
clientVars == <<accessToken, userId, sessionExpiry, authHeader, now, pc, op,
                args, pending, answer, result, nDomain>>
\* the variables of the routes; the specifications of the client alone
\* (Spec, SeqSpec, FairSpec) do not track them
routeVars == <<ret, route, http, body, logged>>
\* the variables of the trail statistics
trailVars == <<positions, elevations, stats>>

\* the variables of the retry envelope of the command-line client
backoffVars == <<attempt, delay, ceiling, requests, retry>>
\* the variables that neither the client, the routes nor the trail
\* statistics touch
\* the variables of the auth router (router of /api/auth)
authVars == <<authSession, authStack, authHttp>>
\* the variables of the MapContainer component
mapVars == <<mounted, listening, isGoogleMapsLoaded, mapInstanceRef, props, polylineRef,
             geofenceOverlaysRef, circles>>
\* the variables of the geofence alerts of App
alertVars == <<geofenceAlerts, timers, clock>>
frontVars == <<mapVars, alertVars>>
otherVars == <<backoffVars, authVars, frontVars>>

vars == <<accessToken, userId, sessionExpiry, authHeader, now, pc, op, args,
          pending, answer, result, nDomain, ret, route, http, body, logged,
          positions, elevations, stats, attempt, delay, ceiling, requests,
          retry, authSession, authStack, authHttp, mounted,
          listening, isGoogleMapsLoaded, mapInstanceRef, props, polylineRef,
          geofenceOverlaysRef, circles, geofenceAlerts, timers, clock>>

session == <<accessToken, userId, sessionExpiry>>

\* ------------------------------------------------------------- operations
DomainOps == {"getTrackers", "getPositionHistory"}
\* the operations that act on a tracker by POST
CommandOps == {"toggleLiveTracking", "triggerLED", "triggerBuzzer"}
\* the operations that take a trackerId
TrackerOps == {"getLatestPosition", "getPositionHistory"} \cup CommandOps
Ops == DomainOps \cup TrackerOps \cup {"authenticate"}

\* message of the Error thrown by the catch block of each operation
ErrMsg(o) ==
    CASE o = "getTrackers" -> "Failed to fetch trackers"
      [] o = "getLatestPosition" -> "Failed to fetch latest position"
      [] o = "getPositionHistory" -> "Failed to fetch position history"
      [] o = "getGeofences" -> "Failed to fetch geofences"
      [] o = "toggleLiveTracking" -> "Failed to toggle live tracking"
      [] o = "triggerLED" -> "Failed to trigger LED"
      [] o = "triggerBuzzer" -> "Failed to trigger buzzer"
      [] OTHER -> "Failed"

AuthErrMsg == "Failed to authenticate with Tractive API"

Errors == {ErrMsg(o) : o \in DomainOps} \cup {AuthErrMsg}
TrackerErrors == {ErrMsg(o) : o \in TrackerOps}

\* ---------------------------------------------------------------- upstream
\* statuses of the failed answers.  The code tells 401 from the rest and
\* nothing else: a transport error (timeout, connection error), which has
\* no status, and the other 4xx take the path of 429 and 500 everywhere.
FailStatuses == {401, 429, 500}
Answer(s, t) == [status |-> s, has_token |-> t]
NoAnswer == Answer(-1, FALSE)
NoArgs == [id |-> "", from |-> 0, to |-> 0, active |-> FALSE]
\* bodies of the 200 answers to POST /auth/login that carry an access_token
LoginBodies ==
    { [access_token |-> 1, user_id |-> 1, expires_in |-> 1],
      [access_token |-> 2, user_id |-> 2, expires_in |-> 2] }

\* -------------------------------------------------------------------- data
\* an optional value (JS undefined or null when absent)
None == <<>>
Some(x) == <<x>>
SeqsUpTo(S, n) == UNION {[1..k -> S] : k \in 0..n}

\* the samples of an upstream positions answer: time in seconds, position
\* on the equator with the longitude in units of a thousandth of a degree
Samples ==
    { [time |-> 1, lng |-> 0], [time |-> 2, lng |-> 1], [time |-> 3, lng |-> 1] }
Bodies == SeqsUpTo(Samples, MaxSamples)

\* the Position object built from upstream sample pos
ToPosition(trackerId, pos) ==
    [tracker_id |-> trackerId, timestamp |-> pos.time, longitude |-> pos.lng]

\* what an operation returned: nothing yet, null, a Position, a list of
\* Positions (both in positions) or a boolean (in ok)
NoRet == [kind |-> "none", positions |-> <<>>, ok |-> FALSE]

\* the route handler of a caller: which route, what it awaits, and whether
\* each enrichment it awaited came back with a value
NoRoute == [name |-> "none", wait |-> "none", geocode |-> "none",
            distance |-> "none", elevation |-> "none"]

\* the HTTP response of a route; status 0 while none is sent
NoData == [positions |-> <<>>, address |-> Null, distanceFromHome |-> Null,
           trailStats |-> None]
NoHttp == [status |-> 0, success |-> FALSE, error |-> "", data |-> NoData]

\* --------------------------------------------------------------- requests
\* tok is the Authorization header of a domain request, uid the user id in
\* the URL of the tracker list; neither is recorded for POST /auth/login
LoginReq == [url |-> "login", tok |-> Null, uid |-> Null]

\* the request an operation sends once ensureAuthenticated() has returned,
\* built from the session (tk, u) current at that moment
DomainReq(o, tk, u) ==
    CASE o = "getTrackers" -> [url |-> "trackers", tok |-> tk, uid |-> u]
      [] o = "toggleLiveTracking" ->
            [url |-> "live_tracking", tok |-> tk, uid |-> Null]
      [] o = "triggerLED" -> [url |-> "led", tok |-> tk, uid |-> Null]
      [] o = "triggerBuzzer" -> [url |-> "buzzer", tok |-> tk, uid |-> Null]
      [] OTHER -> [url |-> "positions", tok |-> tk, uid |-> Null]

\* variant: the re-sent request keeps the Authorization it was first sent with
ResendStale(q, tk) == q

\* the interceptor's re-send of request q: same URL, Authorization set to
\* the token stored by then
Resend(q, tk) == IF q.url = "login" THEN q ELSE [q EXCEPT !.tok = tk]

Top(s) == s[Len(s)]
Pop(s) == SubSeq(s, 1, Len(s) - 1)
\* attempts are counted up to the documented ceiling
Inc(n) == IF n < MaxAttempts THEN n + 1 ELSE n

\* variant: a session still counts as valid at the instant of its expiry
IsSessionValidInclusive ==
    accessToken # Null /\ sessionExpiry # Null /\ now <= sessionExpiry

IsSessionValid ==
    accessToken # Null /\ sessionExpiry # Null /\ now < sessionExpiry

TypeOK ==
    /\ accessToken \in Tokens \cup {Null}
    /\ userId \in UserIds \cup {Null}
    /\ sessionExpiry \in 0..(MaxTime + 2)
    /\ authHeader \in Tokens \cup {Null}
    /\ now \in 1..MaxTime
    /\ pc \in [Procs -> {"idle", "busy", "done"}]
    /\ op \in [Procs -> Ops \cup {"none"}]
    /\ \A p \in Procs : Len(pending[p]) <= MaxStack
    /\ answer \in [Procs -> {Answer(s, FALSE) : s \in FailStatuses \cup {200, 204}}
                            \cup {Answer(200, TRUE), NoAnswer}]
    /\ nDomain \in [Procs -> 0..MaxAttempts]

ClientInit ==
    /\ accessToken = Null
    /\ userId = Null
    /\ sessionExpiry = Null
    /\ authHeader = Null
    /\ now = 1
    /\ pc = [p \in Procs |-> "idle"]
    /\ op = [p \in Procs |-> "none"]
    /\ args = [p \in Procs |-> NoArgs]
    /\ pending = [p \in Procs |-> <<>>]
    /\ answer = [p \in Procs |-> NoAnswer]
    /\ result = [p \in Procs |-> "none"]
    /\ nDomain = [p \in Procs |-> 0]

RouteInit ==
    /\ ret = [p \in Procs |-> NoRet]
    /\ route = [p \in Procs |-> NoRoute]
    /\ http = [p \in Procs |-> NoHttp]
    /\ body = [p \in Procs |-> <<>>]
    /\ logged = {}

TrailInit ==
    /\ positions = <<>>
    /\ elevations = None
    /\ stats = None

BackoffIdle ==
    /\ attempt = 0
    /\ delay = 0
    /\ ceiling = 0
    /\ requests = 0
    /\ retry = "idle"

\* the fields of a TractiveService instance after its construction
NoSession ==
    [accessToken |-> Null, userId |-> Null, sessionExpiry |-> Null,
     authHeader |-> Null]

AuthInit ==
    /\ authSession = NoSession
    /\ authStack = 0
    /\ authHttp = 0

\* the geofences of the selected tracker: two circles and a polygon
Geofences == {"yard", "garden", "park"}
Type(g) == IF g = "park" THEN "polygon" ELSE "circle"

\* before the first render of MapContainer
MapInit ==
    /\ mounted = FALSE
    /\ listening = FALSE
    /\ isGoogleMapsLoaded = FALSE
    /\ mapInstanceRef = FALSE
    /\ props = [latestPosition |-> 0, positions |-> 0, geofences |-> {},
                showGeofences |-> TRUE]
    /\ polylineRef = "none"
    /\ geofenceOverlaysRef = [g \in Geofences |-> "none"]
    /\ circles = [g \in Geofences |-> 0]

\* useState([]) of geofenceAlerts, no timeout pending
AlertInit ==
    /\ geofenceAlerts = <<>>
    /\ timers = {}
    /\ clock = 0

FrontInit == MapInit /\ AlertInit

OtherInit == BackoffIdle /\ AuthInit /\ FrontInit

Init == ClientInit /\ RouteInit /\ TrailInit /\ OtherInit

\* ------------------------------------------------------------ operations
\* bookkeeping common to the start of every operation
Begin(p, o, a) ==
    /\ pc[p] \in {"idle", "done"}
    /\ pc' = [pc EXCEPT ![p] = "busy"]
    /\ op' = [op EXCEPT ![p] = o]
    /\ args' = [args EXCEPT ![p] = a]
    /\ answer' = [answer EXCEPT ![p] = NoAnswer]
    /\ result' = [result EXCEPT ![p] = "none"]
    /\ UNCHANGED <<accessToken, userId, sessionExpiry, authHeader, now>>

\* authenticate(), up to its await: POST /auth/login is sent
SendLogin(p) ==
    /\ pending' = [pending EXCEPT ![p] = <<LoginReq>>]
    /\ nDomain' = [nDomain EXCEPT ![p] = 0]

\* ensureAuthenticated() followed by the operation's own request: the
\* request goes out at once when the session is valid, otherwise
\* authenticate() is awaited first
EnsureAuthenticated(p, o) ==
    IF IsSessionValid
    THEN /\ pending' = [pending EXCEPT ![p] = <<DomainReq(o, authHeader, userId)>>]
         /\ nDomain' = [nDomain EXCEPT ![p] = 1]
    ELSE SendLogin(p)

Authenticate(p) ==
    /\ Begin(p, "authenticate", NoArgs)
    /\ SendLogin(p)

GetTrackers(p) ==
    /\ Begin(p, "getTrackers", NoArgs)
    /\ EnsureAuthenticated(p, "getTrackers")

GetPositionHistory(p, trackerId, from, to) ==
    /\ Begin(p, "getPositionHistory",
             [id |-> trackerId, from |-> from, to |-> to, active |-> FALSE])
    /\ EnsureAuthenticated(p, "getPositionHistory")

\* ------------------------------------------------------- response arrival
\* the operation of p is over: it returned or threw res
Finish(p, res) ==
    /\ pc' = [pc EXCEPT ![p] = "done"]
    /\ result' = [result EXCEPT ![p] = res]
    /\ pending' = [pending EXCEPT ![p] = <<>>]
    /\ op' = [op EXCEPT ![p] = "none"]
    /\ args' = [args EXCEPT ![p] = NoArgs]
    /\ nDomain' = [nDomain EXCEPT ![p] = 0]

\* authenticate() has returned success to its caller, the session being
\* (tk, u) by now.  The caller is the interceptor of the request below on
\* the stack, or ensureAuthenticated(), or the caller of the service.
AfterAuthenticate(p, success, tk, u) ==
    LET rest == Pop(pending[p]) IN
    IF rest # <<>>
    THEN \* interceptor: the return value is dropped, the request is re-sent
         /\ pending' = [pending EXCEPT ![p] = Pop(rest) \o <<Resend(Top(rest), tk)>>]
         /\ nDomain' = [nDomain EXCEPT
                           ![p] = IF Top(rest).url = "login" THEN @ ELSE Inc(@)]
         /\ UNCHANGED <<pc, result, op, args>>
    ELSE IF op[p] = "authenticate"
    THEN Finish(p, IF success THEN "true" ELSE "false")
    ELSE IF success
    THEN /\ pending' = [pending EXCEPT ![p] = <<DomainReq(op[p], tk, u)>>]
         /\ nDomain' = [nDomain EXCEPT ![p] = Inc(@)]
         /\ UNCHANGED <<pc, result, op, args>>
    ELSE Finish(p, AuthErrMsg)

\* a 401 arrives while a token is stored: the interceptor awaits
\* authenticate(), which sends POST /auth/login
Intercept401(p) ==
    /\ pc[p] = "busy"
    /\ accessToken # Null
    /\ Len(pending[p]) < MaxStack
    /\ answer' = [answer EXCEPT ![p] = Answer(401, FALSE)]
    /\ pending' = [pending EXCEPT ![p] = Append(@, LoginReq)]
    /\ UNCHANGED <<accessToken, userId, sessionExpiry, authHeader, now, pc,
                   op, args, result, nDomain>>

\* variant: a successful login stores the session but leaves the default
\* Authorization header of the axios instance as it was
LoginSucceedsStaleHeader(p, b) ==
    /\ pc[p] = "busy"
    /\ Top(pending[p]).url = "login"
    /\ answer' = [answer EXCEPT ![p] = Answer(200, TRUE)]
    /\ accessToken' = b.access_token
    /\ userId' = b.user_id
    /\ sessionExpiry' = now + b.expires_in
    /\ authHeader' = authHeader
    /\ AfterAuthenticate(p, TRUE, b.access_token, b.user_id)
    /\ UNCHANGED now

\* variant: a successful login stores token and expiry but not the user id
LoginSucceedsKeepsUser(p, b) ==
    /\ pc[p] = "busy"
    /\ Top(pending[p]).url = "login"
    /\ answer' = [answer EXCEPT ![p] = Answer(200, TRUE)]
    /\ accessToken' = b.access_token
    /\ userId' = userId
    /\ sessionExpiry' = now + b.expires_in
    /\ authHeader' = b.access_token
    /\ AfterAuthenticate(p, TRUE, b.access_token, userId)
    /\ UNCHANGED now

\* POST /auth/login is answered 200 with body b, which has an access_token:
\* the session is committed and authenticate() returns true
LoginSucceeds(p, b) ==
    /\ pc[p] = "busy"
    /\ Top(pending[p]).url = "login"
    /\ answer' = [answer EXCEPT ![p] = Answer(200, TRUE)]
    /\ accessToken' = b.access_token
    /\ userId' = b.user_id
    /\ sessionExpiry' = now + b.expires_in
    /\ authHeader' = b.access_token
    /\ AfterAuthenticate(p, TRUE, b.access_token, b.user_id)
    /\ UNCHANGED now

\* POST /auth/login fails with status s, or is answered 200 without
\* access_token: authenticate() returns false.  A 401 comes here only
\* while no token is stored.
LoginFails(p, s) ==
    /\ pc[p] = "busy"
    /\ Top(pending[p]).url = "login"
    /\ s = 401 => accessToken = Null
    /\ answer' = [answer EXCEPT ![p] = Answer(s, FALSE)]
    /\ AfterAuthenticate(p, FALSE, accessToken, userId)
    /\ UNCHANGED <<accessToken, userId, sessionExpiry, authHeader, now>>

\* the operation's request is answered 200: the operation returns
DomainSucceeds(p) ==
    /\ pc[p] = "busy"
    /\ Top(pending[p]).url # "login"
    /\ answer' = [answer EXCEPT ![p] = Answer(200, FALSE)]
    /\ Finish(p, "ok")
    /\ UNCHANGED <<accessToken, userId, sessionExpiry, authHeader, now>>

\* the operation's request fails with status s: the catch block throws the
\* operation's fixed Error.  A 401 comes here only while no token is stored.
DomainFails(p, s) ==
    /\ pc[p] = "busy"
    /\ Top(pending[p]).url # "login"
    /\ s = 401 => accessToken = Null
    /\ answer' = [answer EXCEPT ![p] = Answer(s, FALSE)]
    /\ Finish(p, ErrMsg(op[p]))
    /\ UNCHANGED <<accessToken, userId, sessionExpiry, authHeader, now>>

\* time passes
Tick ==
    /\ now < MaxTime
    /\ now' = now + 1
    /\ UNCHANGED <<accessToken, userId, sessionExpiry, authHeader, pc, op,
                   args, pending, answer, result, nDomain>>

Next ==
    \/ \E p \in Procs : Authenticate(p)
          /\ UNCHANGED <<routeVars, trailVars, otherVars>>
    \/ \E p \in Procs : GetTrackers(p)
          /\ UNCHANGED <<routeVars, trailVars, otherVars>>
    \/ \E p \in Procs : \E r \in Ranges : GetPositionHistory(p, "t1", r[1], r[2])
          /\ UNCHANGED <<routeVars, trailVars, otherVars>>
    \/ \E p \in Procs : Intercept401(p)
          /\ UNCHANGED <<routeVars, trailVars, otherVars>>
    \/ \E p \in Procs : \E b \in LoginBodies : LoginSucceeds(p, b)
          /\ UNCHANGED <<routeVars, trailVars, otherVars>>
    \/ \E p \in Procs : \E s \in FailStatuses \cup {200} : LoginFails(p, s)
          /\ UNCHANGED <<routeVars, trailVars, otherVars>>
    \/ \E p \in Procs : DomainSucceeds(p)
          /\ UNCHANGED <<routeVars, trailVars, otherVars>>
    \/ \E p \in Procs : \E s \in FailStatuses : DomainFails(p, s)
          /\ UNCHANGED <<routeVars, trailVars, otherVars>>
    \/ Tick
          /\ UNCHANGED <<routeVars, trailVars, otherVars>>

Spec == Init /\ [][Next]_vars

\* callers take turns: an operation starts only while no other is in progress
Alone(p) == \A q \in Procs \ {p} : pc[q] # "busy"

NextSeq ==
    \/ \E p \in Procs : Alone(p) /\ Authenticate(p)
          /\ UNCHANGED <<routeVars, trailVars, otherVars>>
    \/ \E p \in Procs : Alone(p) /\ GetTrackers(p)
          /\ UNCHANGED <<routeVars, trailVars, otherVars>>
    \/ \E p \in Procs : \E r \in Ranges : Alone(p) /\ GetPositionHistory(p, "t1", r[1], r[2])
          /\ UNCHANGED <<routeVars, trailVars, otherVars>>
    \/ \E p \in Procs : Intercept401(p)
          /\ UNCHANGED <<routeVars, trailVars, otherVars>>
    \/ \E p \in Procs : \E b \in LoginBodies : LoginSucceeds(p, b)
          /\ UNCHANGED <<routeVars, trailVars, otherVars>>
    \/ \E p \in Procs : \E s \in FailStatuses \cup {200} : LoginFails(p, s)
          /\ UNCHANGED <<routeVars, trailVars, otherVars>>
    \/ \E p \in Procs : DomainSucceeds(p)
          /\ UNCHANGED <<routeVars, trailVars, otherVars>>
    \/ \E p \in Procs : \E s \in FailStatuses : DomainFails(p, s)
          /\ UNCHANGED <<routeVars, trailVars, otherVars>>
    \/ Tick
          /\ UNCHANGED <<routeVars, trailVars, otherVars>>

SeqSpec == Init /\ [][NextSeq]_vars

\* every request is answered or times out (axios timeout: 10000), so a
\* caller awaiting upstream is eventually resumed
Respond(p) ==
    /\ \/ Intercept401(p)
       \/ \E b \in LoginBodies : LoginSucceeds(p, b)
       \/ \E s \in FailStatuses \cup {200} : LoginFails(p, s)
       \/ DomainSucceeds(p)
       \/ \E s \in FailStatuses : DomainFails(p, s)
    /\ UNCHANGED <<routeVars, trailVars, otherVars>>

FairSpec == Spec /\ \A p \in Procs : WF_vars(Respond(p))

\* ------------------------------------------------------- trail statistics
\* GoogleMapsService.calculateTrailStats and what it calls.  Positions lie
\* on the equator, where the haversine distance is the difference of the
\* longitudes times a fixed length: distances are counted in that length
\* (the great-circle arc of a thousandth of a degree).  Quotients are kept
\* as exact fractions.
Abs(x) == IF x < 0 THEN -x ELSE x
Ratio(n, d) == [num |-> n, den |-> d]
Zero == Ratio(0, 1)
\* variant: the timestamp is taken for a count of milliseconds
GetTimeAsMillis(timestamp) == timestamp

\* new Date(timestamp).getTime(): the milliseconds of the instant that
\* timestamp denotes (timestamps are instants counted in seconds)
GetTime(timestamp) == timestamp * 1000

CalculateHaversineDistance(a, b) == Abs(b.longitude - a.longitude)

\* the loop over the consecutive pairs of positions, up to index i
RECURSIVE TotalDistance(_, _)
TotalDistance(ps, i) ==
    IF i < 2 THEN 0
    ELSE TotalDistance(ps, i - 1) + CalculateHaversineDistance(ps[i - 1], ps[i])

\* variant: every difference counts as gain, whatever its sign
GainUnsigned(elevDiff) == Abs(elevDiff)

\* what one difference of elevations adds to the gain and to the loss
Gain(elevDiff) == IF elevDiff > 0 THEN elevDiff ELSE 0
\* variant: a negative difference is added to the loss as it is
LossSigned(elevDiff) == IF elevDiff > 0 THEN 0 ELSE elevDiff
Loss(elevDiff) == IF elevDiff > 0 THEN 0 ELSE Abs(elevDiff)

\* the loop over the consecutive pairs of elevations, up to index i
RECURSIVE ElevationGain(_, _)
ElevationGain(es, i) ==
    IF i < 2 THEN 0
    ELSE ElevationGain(es, i - 1) + Gain(es[i] - es[i - 1])

RECURSIVE ElevationLoss(_, _)
ElevationLoss(es, i) ==
    IF i < 2 THEN 0
    ELSE ElevationLoss(es, i - 1) + Loss(es[i] - es[i - 1])

ZeroStats ==
    [distance |-> 0, duration |-> 0, avgSpeed |-> Zero, elevationGain |-> 0,
     elevationLoss |-> 0, avgGrade |-> Zero]

\* variant: the grade is the quotient whatever the distance
AvgGradeUnguarded(elevationGain, elevationLoss, totalDistance) ==
    Ratio((elevationGain - elevationLoss) * 100, totalDistance)

\* the average grade, in percent
AvgGrade(elevationGain, elevationLoss, totalDistance) ==
    IF totalDistance > 0
    THEN Ratio((elevationGain - elevationLoss) * 100, totalDistance)
    ELSE Zero

\* calculateTrailStats past its first return.
\* ps: the positions; es: the optional list of elevations
StatsOf(ps, es) ==
         LET totalDistance == TotalDistance(ps, Len(ps))
             startTime == GetTime(ps[1].timestamp)
             endTime == GetTime(ps[Len(ps)].timestamp)
             duration == (endTime - startTime) \div 1000
             withElevations == es # None /\ Len(es[1]) > 1
             elevationGain ==
                 IF withElevations THEN ElevationGain(es[1], Len(es[1])) ELSE 0
             elevationLoss ==
                 IF withElevations THEN ElevationLoss(es[1], Len(es[1])) ELSE 0
         IN  [distance |-> totalDistance,
              duration |-> duration,
              avgSpeed |-> IF duration > 0
                           THEN Ratio(totalDistance, duration) ELSE Zero,
              elevationGain |-> elevationGain,
              elevationLoss |-> elevationLoss,
              avgGrade |-> AvgGrade(elevationGain, elevationLoss,
                                    totalDistance)]

\* variant: only the empty list of positions gives the all-zero statistics
CalculateTrailStatsFromOne(ps, es) ==
    IF Len(ps) < 1 THEN ZeroStats ELSE StatsOf(ps, es)

CalculateTrailStats(ps, es) ==
    IF Len(ps) < 2 THEN ZeroStats ELSE StatsOf(ps, es)

\* ------------------------------------------- operations that take a tracker
GetLatestPosition(p, trackerId) ==
    /\ Begin(p, "getLatestPosition", [NoArgs EXCEPT !.id = trackerId])
    /\ EnsureAuthenticated(p, "getLatestPosition")

ToggleLiveTracking(p, trackerId, active) ==
    /\ Begin(p, "toggleLiveTracking",
             [NoArgs EXCEPT !.id = trackerId, !.active = active])
    /\ EnsureAuthenticated(p, "toggleLiveTracking")

TriggerLED(p, trackerId) ==
    /\ Begin(p, "triggerLED", [NoArgs EXCEPT !.id = trackerId])
    /\ EnsureAuthenticated(p, "triggerLED")

TriggerBuzzer(p, trackerId) ==
    /\ Begin(p, "triggerBuzzer", [NoArgs EXCEPT !.id = trackerId])
    /\ EnsureAuthenticated(p, "triggerBuzzer")

\* what getLatestPosition returns for the answer body b: the last sample
LatestPosition(trackerId, b) ==
    IF Len(b) > 0
    THEN [kind |-> "position",
          positions |-> <<ToPosition(trackerId, b[Len(b)])>>, ok |-> FALSE]
    ELSE [kind |-> "null", positions |-> <<>>, ok |-> FALSE]

\* what getPositionHistory returns for the answer body b: the samples mapped
\* one by one
PositionHistory(trackerId, b) ==
    [kind |-> "list",
     positions |-> [i \in 1..Len(b) |-> ToPosition(trackerId, b[i])],
     ok |-> FALSE]

\* what a command returns for an answer of status s
CommandResult(s) == [kind |-> "boolean", positions |-> <<>>, ok |-> (s = 200)]

\* statuses of the answers axios resolves with
SuccessStatuses == {200, 204}

\* GET /tracker/:id/positions is answered 200 with body b
PositionsAnswered(p, b) ==
    /\ pc[p] = "busy"
    /\ Top(pending[p]).url = "positions"
    /\ answer' = [answer EXCEPT ![p] = Answer(200, FALSE)]
    /\ body' = [body EXCEPT ![p] = b]
    /\ ret' = [ret EXCEPT ![p] = IF op[p] = "getLatestPosition"
                                 THEN LatestPosition(args[p].id, b)
                                 ELSE PositionHistory(args[p].id, b)]
    /\ Finish(p, "ok")
    /\ UNCHANGED <<accessToken, userId, sessionExpiry, authHeader, now>>

\* the POST of a command is answered with the 2xx status s
CommandAnswered(p, s) ==
    /\ pc[p] = "busy"
    /\ op[p] \in CommandOps
    /\ Top(pending[p]).url # "login"
    /\ answer' = [answer EXCEPT ![p] = Answer(s, FALSE)]
    /\ ret' = [ret EXCEPT ![p] = CommandResult(s)]
    /\ Finish(p, "ok")
    /\ UNCHANGED <<accessToken, userId, sessionExpiry, authHeader, now, body>>

\* ---------------------------------------------------------------- logging
\* the secrets in what an operation's catch block hands to console.error:
\* the axios error, whose config holds the request's headers and data
Secrets == {"password", "token"}

\* authenticate() catches the failure of POST /auth/login, whose data are
\* the credentials and whose headers are the instance's defaults
LoginFailureLog(s) ==
    IF s = 200 THEN {}
    ELSE {"password"} \cup (IF authHeader # Null THEN {"token"} ELSE {})

\* an operation catches the failure of its request q
DomainFailureLog(q) == IF q.tok # Null THEN {"token"} ELSE {}

\* ----------------------------------------------------------------- routes
\* the tracker routes (router of /api/trackers), each around one operation
RouteNames == {"position", "history", "live", "led", "buzzer"}

\* error of the 500 response of each route
RouteError(name) ==
    CASE name = "position" -> "Failed to fetch position"
      [] name = "history" -> "Failed to fetch position history"
      [] name = "live" -> "Failed to toggle live tracking"
      [] name = "led" -> "Failed to trigger LED"
      [] name = "buzzer" -> "Failed to trigger buzzer"
      [] OTHER -> "Failed"

\* res.status(status).json({success: false, error})
Failure(status, error) ==
    [NoHttp EXCEPT !.status = status, !.error = error]
\* res.json({success, data})
Json(success, data) ==
    [status |-> 200, success |-> success, error |-> "", data |-> data]

\* the handler sends response h and ends
Send(p, h) ==
    /\ http' = [http EXCEPT ![p] = h]
    /\ route' = [route EXCEPT ![p].wait = "none"]

\* the handler of route name starts for caller p
StartRoute(p, name) ==
    /\ route[p].wait = "none"
    /\ route' = [route EXCEPT
                    ![p] = [NoRoute EXCEPT !.name = name, !.wait = "tractive"]]
    /\ http' = [http EXCEPT ![p] = NoHttp]
    /\ ret' = [ret EXCEPT ![p] = NoRet]
    /\ body' = [body EXCEPT ![p] = <<>>]
    /\ UNCHANGED logged

\* an operation is called on the service directly, by no route
DirectCall(p) ==
    /\ route[p].wait = "none"
    /\ route' = [route EXCEPT ![p] = NoRoute]
    /\ http' = [http EXCEPT ![p] = NoHttp]
    /\ ret' = [ret EXCEPT ![p] = NoRet]
    /\ body' = [body EXCEPT ![p] = <<>>]
    /\ UNCHANGED logged

\* GET /api/trackers/:id/position
GetPosition(p, id) == StartRoute(p, "position") /\ GetLatestPosition(p, id)
\* GET /api/trackers/:id/history?from=&to=
GetHistory(p, id, from, to) ==
    StartRoute(p, "history") /\ GetPositionHistory(p, id, from, to)
\* POST /api/trackers/:id/live with a boolean active
PostLive(p, id, active) ==
    StartRoute(p, "live") /\ ToggleLiveTracking(p, id, active)
\* POST /api/trackers/:id/led
PostLed(p, id) == StartRoute(p, "led") /\ TriggerLED(p, id)
\* POST /api/trackers/:id/buzzer
PostBuzzer(p, id) == StartRoute(p, "buzzer") /\ TriggerBuzzer(p, id)

\* what the handler of p does, in the step in which the client of the
\* Tractive API was resumed, once the operation it awaits has settled
AfterTractive(p) ==
    LET name == route[p].name
        value == ret'[p]
    IN  IF pc'[p] # "done" \/ name = "none" THEN UNCHANGED <<route, http>>
        ELSE IF result'[p] # "ok" THEN Send(p, Failure(500, RouteError(name)))
        ELSE IF name = "position"
        THEN IF value.kind = "null"
             THEN Send(p, Failure(404, "No recent position found"))
             ELSE /\ route' = [route EXCEPT ![p].wait = "geocode"]
                  /\ http' = [http EXCEPT ![p].data.positions = value.positions]
        ELSE IF name = "history"
        THEN IF Len(value.positions) > 1
             THEN /\ route' = [route EXCEPT ![p].wait = "elevation"]
                  /\ http' = [http EXCEPT ![p].data.positions = value.positions]
             ELSE Send(p, Json(TRUE, [NoData EXCEPT !.positions = value.positions]))
        ELSE Send(p, Json(value.ok, NoData))

\* --------------------------------------------------------------- enrichment
\* how a call of GoogleMapsService comes back: with a result, with an
\* empty result, with an error or a timeout (caught inside the service),
\* or at once because the feature is disabled or no API key is configured
EnrichOutcomes == {"ok", "empty", "error", "disabled"}
Came(o) == IF o = "ok" THEN "ok" ELSE "failed"
\* elevations of the answers to the elevation queries of the routes
RouteElevations == {100, 150}

\* reverseGeocode(): the formatted address, or null
ReverseGeocode(o) == IF o = "ok" THEN 1 ELSE Null
\* getDistanceMatrix(): the distance values of the elements with status OK
GetDistanceMatrix(o) == IF o = "ok" THEN <<7>> ELSE <<>>
\* getElevation(): the elevations of the results
GetElevation(o, es) == IF o = "ok" THEN es ELSE <<>>

\* variant: an error of the geocoding call reaches the catch of the route
ReverseGeocodeThrows(p, o, home) ==
    /\ route[p].wait = "geocode"
    /\ LET data == [http[p].data EXCEPT !.address = ReverseGeocode(o)] IN
       IF o = "error"
       THEN /\ http' = [http EXCEPT ![p] = Failure(500, RouteError("position"))]
            /\ route' = [route EXCEPT ![p].wait = "none",
                                      ![p].geocode = Came(o)]
       ELSE IF home
       THEN /\ http' = [http EXCEPT ![p].data = data]
            /\ route' = [route EXCEPT ![p].wait = "distance",
                                      ![p].geocode = Came(o)]
       ELSE /\ http' = [http EXCEPT ![p] = Json(TRUE, data)]
            /\ route' = [route EXCEPT ![p].wait = "none",
                                      ![p].geocode = Came(o)]
    /\ UNCHANGED <<clientVars, ret, body, logged, trailVars, otherVars>>

\* GET /:id/position: reverseGeocode() has returned.  With a home base
\* configured (home) the distance matrix is awaited next, otherwise the
\* response is sent.
ReverseGeocodeReturns(p, o, home) ==
    /\ route[p].wait = "geocode"
    /\ LET data == [http[p].data EXCEPT !.address = ReverseGeocode(o)] IN
       IF home
       THEN /\ http' = [http EXCEPT ![p].data = data]
            /\ route' = [route EXCEPT ![p].wait = "distance",
                                      ![p].geocode = Came(o)]
       ELSE /\ http' = [http EXCEPT ![p] = Json(TRUE, data)]
            /\ route' = [route EXCEPT ![p].wait = "none",
                                      ![p].geocode = Came(o)]
    /\ UNCHANGED <<clientVars, ret, body, logged, trailVars, otherVars>>

\* GET /:id/position: getDistanceMatrix() has returned; the response is sent
DistanceMatrixReturns(p, o) ==
    /\ route[p].wait = "distance"
    /\ LET distanceResults == GetDistanceMatrix(o)
           distanceFromHome ==
               IF Len(distanceResults) > 0 THEN distanceResults[1] ELSE Null
       IN  /\ http' = [http EXCEPT
                          ![p] = Json(TRUE, [http[p].data EXCEPT
                                      !.distanceFromHome = distanceFromHome])]
           /\ route' = [route EXCEPT ![p].wait = "none",
                                     ![p].distance = Came(o)]
    /\ UNCHANGED <<clientVars, ret, body, logged, trailVars, otherVars>>

\* GET /:id/history: getElevation() has returned, with the elevations es
\* when it has a result; the statistics are computed and the response sent
ElevationReturns(p, o, es) ==
    /\ route[p].wait = "elevation"
    /\ Len(es) = Len(http[p].data.positions)
    /\ LET elevs == GetElevation(o, es)
           trailStats == CalculateTrailStats(http[p].data.positions, Some(elevs))
       IN  /\ http' = [http EXCEPT
                          ![p] = Json(TRUE, [http[p].data EXCEPT
                                      !.trailStats = Some(trailStats)])]
           /\ route' = [route EXCEPT ![p].wait = "none",
                                     ![p].elevation = Came(o)]
    /\ UNCHANGED <<clientVars, ret, body, logged, trailVars, otherVars>>

\* ------------------------------------------------- the routes, one client
\* the HTTP clients followed; each sends its next request once the response
\* to the one before has arrived
Clients == {"c1"}
\* the ids a route is entered with: a path parameter is never empty
RouteIds == TrackerIds \ {""}

RouteNext ==
    \/ \E p \in Clients : \E id \in RouteIds :
          GetPosition(p, id) /\ UNCHANGED <<trailVars, otherVars>>
    \/ \E p \in Clients : \E id \in RouteIds : \E r \in Ranges :
          GetHistory(p, id, r[1], r[2]) /\ UNCHANGED <<trailVars, otherVars>>
    \/ \E p \in Clients : \E id \in RouteIds : \E active \in BOOLEAN :
          PostLive(p, id, active) /\ UNCHANGED <<trailVars, otherVars>>
    \/ \E p \in Clients : \E id \in RouteIds :
          PostLed(p, id) /\ UNCHANGED <<trailVars, otherVars>>
    \/ \E p \in Clients : \E id \in RouteIds :
          PostBuzzer(p, id) /\ UNCHANGED <<trailVars, otherVars>>
    \/ \E p \in Clients : \E id \in TrackerIds :
          DirectCall(p) /\ GetLatestPosition(p, id) /\ UNCHANGED <<trailVars, otherVars>>
    \/ \E p \in Clients : \E id \in TrackerIds : \E active \in BOOLEAN :
          DirectCall(p) /\ ToggleLiveTracking(p, id, active) /\ UNCHANGED <<trailVars, otherVars>>
    \/ \E p \in Clients :
          Intercept401(p) /\ UNCHANGED <<routeVars, trailVars, otherVars>>
    \/ \E p \in Clients : \E b \in LoginBodies :
          /\ LoginSucceeds(p, b)
          /\ UNCHANGED <<ret, body, logged, trailVars, otherVars>>
          /\ AfterTractive(p)
    \/ \E p \in Clients : \E s \in FailStatuses \cup {200} :
          /\ LoginFails(p, s)
          /\ logged' = logged \cup LoginFailureLog(s)
          /\ UNCHANGED <<ret, body, trailVars, otherVars>>
          /\ AfterTractive(p)
    \/ \E p \in Clients : \E s \in FailStatuses :
          /\ DomainFails(p, s)
          /\ logged' = logged \cup DomainFailureLog(Top(pending[p]))
          /\ UNCHANGED <<ret, body, trailVars, otherVars>>
          /\ AfterTractive(p)
    \/ \E p \in Clients : \E b \in Bodies :
          /\ PositionsAnswered(p, b)
          /\ UNCHANGED <<logged, trailVars, otherVars>>
          /\ AfterTractive(p)
    \/ \E p \in Clients : \E s \in SuccessStatuses :
          /\ CommandAnswered(p, s)
          /\ UNCHANGED <<logged, trailVars, otherVars>>
          /\ AfterTractive(p)
    \/ \E p \in Clients : \E o \in EnrichOutcomes : \E home \in BOOLEAN :
          ReverseGeocodeReturns(p, o, home)
    \/ \E p \in Clients : \E o \in EnrichOutcomes :
          DistanceMatrixReturns(p, o)
    \/ \E p \in Clients : \E o \in EnrichOutcomes :
          \E es \in SeqsUpTo(RouteElevations, MaxSamples) :
             ElevationReturns(p, o, es)
    \/ Tick /\ UNCHANGED <<routeVars, trailVars, otherVars>>

RouteSpec == Init /\ [][RouteNext]_vars

\* ------------------------------------------- the trail statistics, alone
Elevations == {100, 120, 140, 150}
TrailInputs ==
    /\ ClientInit
    /\ RouteInit
    /\ OtherInit
    /\ positions \in {PositionHistory("t1", b).positions : b \in Bodies}
    /\ elevations \in {None} \cup {Some(es) : es \in SeqsUpTo(Elevations, MaxElevations)}
    /\ stats = None

\* calculateTrailStats(positions, elevations) is called
Calculate ==
    /\ stats = None
    /\ stats' = Some(CalculateTrailStats(positions, elevations))
    /\ UNCHANGED <<clientVars, routeVars, positions, elevations, otherVars>>

TrailNext == Calculate

TrailSpec == TrailInputs /\ [][TrailNext]_vars

\* ---------------------------------------------------------- backoff policy
\* The retry envelope of the command-line client (tractive-cli), which the
\* README documents (TRACTIVE_MAX_RETRIES, TRACTIVE_BACKOFF_MS, "automatic
\* retry with exponential backoff and jitter").  Durations in milliseconds.
BackoffMs == 1000
\* configured ceilings of the delay
Ceilings == {1500, 8000}
\* the "do not retry" sentinel
NoRetry == -1
Min(a, b) == IF a < b THEN a ELSE b
RECURSIVE Pow2(_)
Pow2(n) == IF n <= 0 THEN 1 ELSE 2 * Pow2(n - 1)

\* base * 2^(attempt - 1), capped at the ceiling c
Computed(a, c) == Min(BackoffMs * Pow2(a - 1), c)
\* variant: the jitter may reach the computed value itself
JittersInclusive(a, c) == 0..Computed(a, c)
\* the values of the jitter: uniform in [0, computed)
Jitters(a, c) == 0..(Computed(a, c) - 1)
\* delay(attempt) with jitter j
Delay(a, c, j) == IF a > MaxAttempts THEN NoRetry ELSE Computed(a, c) + j

\* the request in flight fails with a RateLimit or Network failure: the
\* policy is asked for the delay of the next attempt, with jitter j
RequestFails(j) ==
    /\ retry = "inflight"
    /\ attempt' = attempt + 1
    /\ delay' = Delay(attempt', ceiling, j)
    /\ retry' = IF delay' = NoRetry THEN "gaveUp" ELSE "sleeping"
    /\ UNCHANGED <<ceiling, requests, clientVars, routeVars, trailVars,
                   authVars, frontVars>>

\* the delay is over: the request is sent again
WakeUp ==
    /\ retry = "sleeping"
    /\ retry' = "inflight"
    /\ requests' = requests + 1
    /\ delay' = 0
    /\ UNCHANGED <<attempt, ceiling, clientVars, routeVars, trailVars,
                   authVars, frontVars>>

\* the request in flight is answered
RequestSucceeds ==
    /\ retry = "inflight"
    /\ retry' = "succeeded"
    /\ UNCHANGED <<attempt, delay, ceiling, requests, clientVars, routeVars,
                   trailVars, authVars,
                   frontVars>>

BackoffStart ==
    /\ ClientInit
    /\ RouteInit
    /\ TrailInit
    /\ AuthInit
    /\ FrontInit
    /\ attempt = 0
    /\ delay = 0
    /\ ceiling \in Ceilings
    /\ requests = 1
    /\ retry = "inflight"

BackoffNext ==
    \/ \E j \in Jitters(Min(attempt + 1, MaxAttempts), ceiling) : RequestFails(j)
    \/ WakeUp
    \/ RequestSucceeds

BackoffSpec == BackoffStart /\ [][BackoffNext]_vars

\* ------------------------------------------------------------ auth router
\* The router of /api/auth has a TractiveService instance of its own, whose
\* only operation in use is authenticate().

\* POST /api/auth/login-tractive: authenticate() sends POST /auth/login
PostLoginTractive ==
    /\ authStack = 0
    /\ authStack' = 1
    /\ authHttp' = 0
    /\ UNCHANGED <<authSession, clientVars, routeVars, trailVars, backoffVars,
                   frontVars>>

\* the login of the auth router's instance is answered 401 while that
\* instance has a token: its interceptor awaits authenticate() again
AuthIntercept401 ==
    /\ authStack >= 1
    /\ authStack < MaxStack
    /\ authSession.accessToken # Null
    /\ authStack' = authStack + 1
    /\ UNCHANGED <<authSession, authHttp, clientVars, routeVars, trailVars,
                   backoffVars, frontVars>>

\* authenticate() of the auth router's instance has returned success: to
\* the route, which answers, or to the interceptor, which re-sends the login
\* it holds
AuthReturns(success) ==
    IF authStack = 1
    THEN /\ authStack' = 0
         /\ authHttp' = IF success THEN 200 ELSE 401
    ELSE /\ authStack' = authStack - 1
         /\ UNCHANGED authHttp

\* variant: the routers share one TractiveService instance, so that the
\* login of the auth router commits to the session the tracker routes use
AuthLoginSucceedsShared(b) ==
    /\ authStack >= 1
    /\ accessToken' = b.access_token
    /\ userId' = b.user_id
    /\ sessionExpiry' = now + b.expires_in
    /\ authHeader' = b.access_token
    /\ AuthReturns(TRUE)
    /\ UNCHANGED <<authSession, now, pc, op, args, pending, answer, result,
                   nDomain, routeVars, trailVars, backoffVars,
                   frontVars>>

\* the login of the auth router's instance is answered 200 with body b,
\* which has an access_token: that instance commits the session
AuthLoginSucceeds(b) ==
    /\ authStack >= 1
    /\ authSession' = [accessToken |-> b.access_token, userId |-> b.user_id,
                       sessionExpiry |-> now + b.expires_in,
                       authHeader |-> b.access_token]
    /\ AuthReturns(TRUE)
    /\ UNCHANGED <<clientVars, routeVars, trailVars, backoffVars,
                   frontVars>>

\* the login of the auth router's instance fails with status s, or is
\* answered 200 without access_token.  A 401 comes here only while that
\* instance has no token.
AuthLoginFails(s) ==
    /\ authStack >= 1
    /\ s = 401 => authSession.accessToken = Null
    /\ AuthReturns(FALSE)
    /\ UNCHANGED <<authSession, clientVars, routeVars, trailVars, backoffVars,
                   frontVars>>

\* the two routers side by side; of the tracker routes, GET /:id/position
\* with upstream having no sample
AuthNext ==
    \/ PostLoginTractive
    \/ AuthIntercept401
    \/ \E b \in LoginBodies : AuthLoginSucceeds(b)
    \/ \E s \in FailStatuses \cup {200} : AuthLoginFails(s)
    \/ \E p \in Clients : \E id \in RouteIds :
          GetPosition(p, id) /\ UNCHANGED <<trailVars, otherVars>>
    \/ \E p \in Clients :
          Intercept401(p) /\ UNCHANGED <<routeVars, trailVars, otherVars>>
    \/ \E p \in Clients : \E b \in LoginBodies :
          /\ LoginSucceeds(p, b)
          /\ UNCHANGED <<ret, body, logged, trailVars, otherVars>>
          /\ AfterTractive(p)
    \/ \E p \in Clients : \E s \in FailStatuses \cup {200} :
          /\ LoginFails(p, s)
          /\ logged' = logged \cup LoginFailureLog(s)
          /\ UNCHANGED <<ret, body, trailVars, otherVars>>
          /\ AfterTractive(p)
    \/ \E p \in Clients : \E s \in FailStatuses :
          /\ DomainFails(p, s)
          /\ logged' = logged \cup DomainFailureLog(Top(pending[p]))
          /\ UNCHANGED <<ret, body, trailVars, otherVars>>
          /\ AfterTractive(p)
    \/ \E p \in Clients :
          /\ PositionsAnswered(p, <<>>)
          /\ UNCHANGED <<logged, trailVars, otherVars>>
          /\ AfterTractive(p)
    \/ Tick /\ UNCHANGED <<routeVars, trailVars, otherVars>>

AuthSpec == Init /\ [][AuthNext]_vars

\* ----------------------------------------------------------- MapContainer
\* One action per render of the component: the render commits the props and
\* the effects whose dependencies changed run in the order of their
\* declaration.  Pet marker, heatmap and place markers are left out; the
\* effect of the onGeofenceViolation prop on the alert list is the action
\* HandleGeofenceViolation below.

MaxCircles == 2
\* latestPosition is null (0) or the object of a poll; positions is a fresh
\* empty array (0) or the array of a fetched history
LatestPositions == {1, 2}
Histories == {1, 2}
Props ==
    [latestPosition : {0} \cup LatestPositions, positions : {0} \cup Histories,
     geofences : SUBSET Geofences, showGeofences : BOOLEAN]

\* the refs and the map, as the effects pass them on
Refs ==
    [map |-> mapInstanceRef, polyline |-> polylineRef,
     overlays |-> geofenceOverlaysRef, circles |-> circles]

\* what is attached to the map of mapInstanceRef stays on that map when the
\* ref is given another one
Left(where) == IF where = "current" THEN "old" ELSE where

\* initialize map: deps [isGoogleMapsLoaded, latestPosition]
InitializeMap(m, run, loaded) ==
    IF run /\ loaded
    THEN [map |-> TRUE, polyline |-> Left(m.polyline),
          overlays |-> [g \in Geofences |-> Left(m.overlays[g])],
          circles |-> [g \in Geofences |-> 0]]
    ELSE m

clearOverlays(m) ==
    [m EXCEPT !.polyline = "none",
              !.overlays = [g \in Geofences |-> "none"]]

\* update pet marker: deps [isGoogleMapsLoaded, latestPosition, clearOverlays]
UpdatePetMarker(m, run, loaded, p) ==
    IF run /\ loaded /\ m.map /\ p.latestPosition # 0
    THEN clearOverlays(m)
    ELSE m

\* update trail polyline: deps [isGoogleMapsLoaded, positions]
UpdateTrailPolyline(m, run, loaded, p) ==
    IF run /\ loaded /\ m.map /\ p.positions # 0
    THEN [m EXCEPT !.polyline = "current"]
    ELSE m

\* update geofences: deps [isGoogleMapsLoaded, geofences,
\* settings.showGeofences, latestPosition, onGeofenceViolation]
UpdateGeofences(m, run, loaded, p) ==
    IF run /\ loaded /\ m.map /\ p.showGeofences
    THEN [m EXCEPT
            !.overlays = [g \in Geofences |->
                            IF g \in p.geofences /\ Type(g) = "polygon"
                            THEN "current" ELSE "none"],
            !.circles = [g \in Geofences |->
                            IF g \in p.geofences /\ Type(g) = "circle"
                            THEN m.circles[g] + 1 ELSE m.circles[g]]]
    ELSE m

\* the effects of the render that commits state loaded and props p;
\* parent says that App rendered, which passes a new onGeofenceViolation
Effects(loaded, p, parent) ==
    LET first == ~mounted
        byLoaded == first \/ loaded # isGoogleMapsLoaded
        byPosition == byLoaded \/ p.latestPosition # props.latestPosition
        byHistory == byLoaded \/ p.positions # props.positions
                        \/ p.positions = 0
        byGeofences == byPosition \/ parent
                        \/ p.geofences # props.geofences
                        \/ p.showGeofences # props.showGeofences
        m1 == InitializeMap(Refs, byPosition, loaded)
        m2 == UpdatePetMarker(m1, byPosition, loaded, p)
        m3 == UpdateTrailPolyline(m2, byHistory, loaded, p)
    IN  UpdateGeofences(m3, byGeofences, loaded, p)

Commit(loaded, p, parent) ==
    LET m == Effects(loaded, p, parent) IN
    /\ \A g \in Geofences : m.circles[g] <= MaxCircles
    /\ mounted' = TRUE
    /\ isGoogleMapsLoaded' = loaded
    /\ props' = p
    /\ mapInstanceRef' = m.map
    /\ polylineRef' = m.polyline
    /\ geofenceOverlaysRef' = m.overlays
    /\ circles' = m.circles
    /\ UNCHANGED <<clientVars, routeVars, trailVars, backoffVars, authVars,
                   alertVars>>

\* first render; window.googleMapsLoaded is loaded, and the component
\* listens to the event 'google-maps-loaded' when it is false
Mount(loaded, p) ==
    /\ ~mounted
    /\ listening' = ~loaded
    /\ Commit(loaded, p, TRUE)

\* App renders again and passes props p
Render(p) ==
    /\ mounted
    /\ UNCHANGED listening
    /\ Commit(isGoogleMapsLoaded, p, TRUE)

\* the event 'google-maps-loaded' reaches the listener, which sets the
\* state of the component
GoogleMapsLoaded ==
    /\ listening
    /\ ~isGoogleMapsLoaded
    /\ UNCHANGED listening
    /\ Commit(TRUE, props, FALSE)

MapNext ==
    \/ \E loaded \in BOOLEAN : \E p \in Props : Mount(loaded, p)
    \/ \E p \in Props : Render(p)
    \/ GoogleMapsLoaded

MapSpec == Init /\ [][MapNext]_vars

\* ------------------------------------------------------- geofence alerts
\* The alert list of App.  Time is counted in steps of 10 s, and a timeout
\* runs at the step it is due.

MaxClock == 4
Ms(step) == step * 10000
AlertWindowMs == 60000
AlertTimeoutMs == 30000
\* the timestamps of the positions that come with a violation
Timestamps == {Ms(0), Ms(3), Ms(6)}

\* variant: an alert counts as a duplicate only if it has the timestamp of
\* the position
ExistsSameTimestamp(prev, g, timestamp) ==
    \E i \in 1..Len(prev) :
        prev[i].id = g /\ prev[i].timestamp = timestamp

\* prev.some(...): an alert of geofence g whose position is less than a
\* minute away from timestamp
Exists(prev, g, timestamp) ==
    \E i \in 1..Len(prev) :
        /\ prev[i].id = g
        /\ Abs(prev[i].timestamp - timestamp) < AlertWindowMs

\* prev.filter(alert => alert.geofence.id !== g)
RECURSIVE Without(_, _)
Without(prev, g) ==
    IF prev = <<>> THEN <<>>
    ELSE IF Head(prev).id = g THEN Without(Tail(prev), g)
    ELSE <<Head(prev)>> \o Without(Tail(prev), g)

\* the geofence effect of MapContainer finds latestPosition, of the given
\* timestamp, outside the active circle geofence g and calls
\* onGeofenceViolation.  Field at records when the alert was added.
HandleGeofenceViolation(g, timestamp) ==
    /\ Type(g) = "circle"
    /\ geofenceAlerts' =
          IF Exists(geofenceAlerts, g, timestamp)
          THEN geofenceAlerts
          ELSE Append(geofenceAlerts,
                      [id |-> g, timestamp |-> timestamp, at |-> Ms(clock)])
    /\ timers' = timers \cup {[id |-> g, due |-> Ms(clock) + AlertTimeoutMs]}
    /\ UNCHANGED <<clock, clientVars, routeVars, trailVars, backoffVars,
                   authVars, mapVars>>

\* a timeout set by handleGeofenceViolation runs
TimerFires(t) ==
    /\ t \in timers
    /\ t.due = Ms(clock)
    /\ geofenceAlerts' = Without(geofenceAlerts, t.id)
    /\ timers' = timers \ {t}
    /\ UNCHANGED <<clock, clientVars, routeVars, trailVars, backoffVars,
                   authVars, mapVars>>

\* 10 s pass, no timeout being due
AlertTick ==
    /\ clock < MaxClock
    /\ \A t \in timers : t.due > Ms(clock)
    /\ clock' = clock + 1
    /\ UNCHANGED <<geofenceAlerts, timers, clientVars, routeVars, trailVars,
                   backoffVars, authVars, mapVars>>

AlertNext ==
    \/ \E g \in Geofences : \E timestamp \in Timestamps :
          HandleGeofenceViolation(g, timestamp)
    \/ \E t \in timers : TimerFires(t)
    \/ AlertTick

AlertSpec == Init /\ [][AlertNext]_vars

\* ------------------------------------------------------------------ steps
\* caller p took the step
Stepped(p) == pending'[p] # pending[p] \/ pc'[p] # pc[p]
\* p started an operation in the step
Started(p) == pc[p] # "busy" /\ pc'[p] = "busy"
\* p received the answer to the request it had in flight
Answered(p) == pc[p] = "busy" /\ Stepped(p)
\* p sent a request in the step (every step of p that leaves it busy does)
Sent(p) == Stepped(p) /\ pc'[p] = "busy"
SentLogin(p) == Sent(p) /\ Top(pending'[p]).url = "login"
SentDomain(p) == Sent(p) /\ Top(pending'[p]).url # "login"
LoginInFlight(p) == pc[p] = "busy" /\ Top(pending[p]).url = "login"
DomainInFlight(p) == pc[p] = "busy" /\ Top(pending[p]).url # "login"

\* ----------------------------------------------------------------- claims
\* C1: callers that find the session invalid share one authentication
\* request: no two POST /auth/login of one instance are in flight together.
C1_SingleLoginInFlight ==
    Cardinality({p \in Procs : LoginInFlight(p)}) <= 1

\* C2: the first 401 to a domain request is followed by one
\* re-authentication; a 401 to the re-sent request ends the operation with
\* an error, without another re-authentication or re-send.
C2_OneReauthOneResend ==
    [][\A p \in Procs :
         (DomainInFlight(p) /\ Answered(p) /\ answer'[p].status = 401)
            => IF nDomain[p] = 1
               THEN SentLogin(p)
               ELSE pc'[p] = "done" /\ result'[p] \in Errors]_vars

\* C3: every operation, authenticate() included, eventually completes,
\* whatever upstream answers.
C3_Terminates ==
    \A p \in Procs : (pc[p] = "busy") ~> (pc[p] = "done")

\* C4: in sequential use, an operation started while the session has not
\* expired sends its request at once with the stored token, which is the
\* token the operation before it ended with, and no login; an operation
\* started at or after the expiry sends a login first, and the request that
\* follows it carries the token of a session issued since.
C4_TokenReuseAndRefresh ==
    [][\A p \in Procs :
         /\ (Started(p) /\ op'[p] \in DomainOps
                /\ accessToken # Null /\ now < sessionExpiry)
               => /\ SentDomain(p)
                  /\ Top(pending'[p]).tok = accessToken
                  /\ session' = session
         /\ (DomainInFlight(p) /\ pc'[p] = "done")
               => Top(pending[p]).tok = accessToken
         /\ (Started(p) /\ op'[p] \in DomainOps
                /\ accessToken # Null /\ now >= sessionExpiry)
               => SentLogin(p)
         /\ (LoginInFlight(p) /\ Len(pending[p]) = 1 /\ SentDomain(p))
               => /\ Top(pending'[p]).tok = accessToken'
                  /\ now < sessionExpiry'
                  /\ answer'[p] = Answer(200, TRUE)]_vars

\* a second operation went out with the stored token while the session
\* was still valid, after another one had succeeded
C4_Witness ==
    \E p \in Procs : \E q \in Procs \ {p} :
        /\ result[q] = "ok"
        /\ pc[p] = "busy" /\ op[p] \in DomainOps /\ answer[p] = NoAnswer
        /\ Len(pending[p]) = 1 /\ Top(pending[p]).url # "login"
        /\ Top(pending[p]).tok = accessToken
        /\ now > 1

\* C5: the session changes only when a login is answered with an
\* access_token, and then token, user id and expiry all become those of
\* that one answer; a failed authenticate() changes none of them.
C5_SessionReplacedWhole ==
    [][session' # session =>
         \E p \in Procs : \E b \in LoginBodies :
            /\ LoginInFlight(p) /\ Answered(p)
            /\ answer'[p] = Answer(200, TRUE)
            /\ session' = <<b.access_token, b.user_id, now + b.expires_in>>]_vars

\* an authenticate() has failed and another has succeeded while a session
\* issued with a different user id had been stored
C5_Witness ==
    \E p \in Procs : \E q \in Procs \ {p} :
        /\ result[p] = "false" /\ result[q] = "true"
        /\ accessToken = 2 /\ userId = 2

\* C6: ensureAuthenticated() sends a login iff the session is not valid,
\* i.e. unless a token is stored and the time is strictly before the expiry.
C6_LoginIffInvalid ==
    [][\A p \in Procs :
         (Started(p) /\ op'[p] \in DomainOps)
            => (SentLogin(p) <=> ~(accessToken # Null /\ now < sessionExpiry))]_vars

\* an operation started at the very instant of the expiry sent a login
C6_Witness ==
    \E p \in Procs :
        /\ pc[p] = "busy" /\ op[p] \in DomainOps /\ answer[p] = NoAnswer
        /\ pending[p] = <<LoginReq>>
        /\ accessToken # Null /\ now = sessionExpiry

\* C7: a domain request goes out only with a session stored, carries its
\* token (and, for the tracker list, its user id), and is not sent when the
\* authentication made for it has failed.
C7_DomainRequestAuthenticated ==
    [][\A p \in Procs :
         SentDomain(p)
            => /\ accessToken' # Null
               /\ Top(pending'[p]).tok = accessToken'
               /\ Top(pending'[p]).url = "trackers"
                     => Top(pending'[p]).uid = userId'
               /\ LoginInFlight(p) => answer'[p].has_token]_vars

\* C8: a domain request answered 429 or 5xx is re-sent as long as fewer than
\* MaxAttempts attempts were made.
C8_RetriesUpToMaxAttempts ==
    [][\A p \in Procs :
         (DomainInFlight(p) /\ Answered(p)
             /\ answer'[p].status \in {429, 500} /\ nDomain[p] < MaxAttempts)
            => SentDomain(p)]_vars

\* the failure kind of an upstream status
KindOf(s) ==
    CASE s \in {401, 403} -> "Auth"
      [] s = 429 -> "RateLimit"
      [] s >= 500 -> "Network"
      [] OTHER -> "Fatal"

\* C9: the error an operation surfaces determines the kind of the upstream
\* outcome that caused it: equal errors come from outcomes of one kind.
C9_ErrorCarriesKind ==
    \A p \in Procs : \A q \in Procs :
        (pc[p] = "done" /\ pc[q] = "done"
            /\ result[p] \in Errors /\ result[q] = result[p])
           => KindOf(answer[p].status) = KindOf(answer[q].status)

\* C10: no getPositionHistory call with from later than to ever has a
\* request upstream.
C10_InvalidRangeSendsNothing ==
    \A p \in Procs :
        ~(pc[p] = "busy" /\ op[p] = "getPositionHistory"
            /\ args[p].from > args[p].to)

\* C11: no operation that takes a trackerId has a request upstream (the
\* login of its ensureAuthenticated() included) while the trackerId it was
\* called with is the empty string.
C11_EmptyTrackerIdSendsNothing ==
    \A p \in Procs :
        ~(pc[p] = "busy" /\ op[p] \in TrackerOps /\ args[p].id = "")

\* the greatest timestamp among the samples of body b
Greatest(b) ==
    CHOOSE t \in {b[i].time : i \in DOMAIN b} : \A i \in DOMAIN b : b[i].time <= t

\* C12: getLatestPosition returns the sample with the greatest timestamp
\* among the samples of the upstream answer, and null, with no error, when
\* the answer has no sample.
C12_LatestIsGreatestTimestamp ==
    \A p \in Procs :
        ret[p].kind \in {"position", "null"}
           => /\ result[p] = "ok"
              /\ IF body[p] = <<>>
                 THEN ret[p].kind = "null"
                 ELSE /\ ret[p].kind = "position"
                      /\ ret[p].positions[1].timestamp = Greatest(body[p])

\* C13: whatever upstream answers, the list getPositionHistory(trackerId,
\* from, to) returns is in non-decreasing order of timestamp and holds only
\* positions with from <= timestamp <= to.
C13_HistorySortedWithinRange ==
    [][\A p \in Procs :
         (op[p] = "getPositionHistory" /\ DomainInFlight(p)
             /\ pc'[p] = "done" /\ result'[p] = "ok")
            => LET ps == ret'[p].positions IN
               /\ \A i \in 1..(Len(ps) - 1) : ps[i].timestamp <= ps[i + 1].timestamp
               /\ \A i \in 1..Len(ps) :
                     /\ args[p].from <= ps[i].timestamp
                     /\ ps[i].timestamp <= args[p].to]_vars

\* C14: toggleLiveTracking, triggerLED and triggerBuzzer return true
\* whenever upstream answers the command with a 2xx status.
C14_CommandTrueOnAny2xx ==
    \A p \in Procs :
        (ret[p].kind = "boolean" /\ answer[p].status \in 200..299) => ret[p].ok


\* C15: whenever the Tractive call of GET /:id/position or GET /:id/history
\* has succeeded (with a sample, for position), nothing but a success
\* response with the position data is ever sent, whatever the outcome of
\* the reverse-geocode, distance-matrix and elevation calls; an enrichment
\* that did not come back with a value leaves its own field empty (address,
\* distanceFromHome) or zero (elevation gain and loss).
C15_EnrichmentNeverFailsRoute ==
    \A p \in Procs :
        (route[p].name \in {"position", "history"}
            /\ result[p] = "ok" /\ ret[p].kind # "null")
           => LET h == http[p] IN
              /\ h.status \in {0, 200}
              /\ h.status = 0 <=> route[p].wait # "none"
              /\ h.status = 200
                    => /\ h.success
                       /\ h.data.positions = ret[p].positions
                       /\ route[p].geocode = "failed" => h.data.address = Null
                       /\ route[p].distance = "failed"
                             => h.data.distanceFromHome = Null
                       /\ route[p].elevation = "failed"
                             => /\ h.data.trailStats # None
                                /\ h.data.trailStats[1].elevationGain = 0
                                /\ h.data.trailStats[1].elevationLoss = 0

\* GET /:id/position has answered 200 with the position although neither
\* the geocoding nor the distance matrix came back with a value
C15_Witness ==
    \E p \in Procs :
        /\ route[p].name = "position" /\ route[p].wait = "none"
        /\ route[p].geocode = "failed" /\ route[p].distance = "failed"
        /\ http[p].status = 200 /\ http[p].success
        /\ Len(http[p].data.positions) = 1

\* the HTTP statuses that stand for a failure kind
StatusesOfKind(k) ==
    CASE k = "Auth" -> {401}
      [] k = "RateLimit" -> {429}
      [] k = "Network" -> {502, 504}
      [] OTHER -> {400, 404}

\* C16: a tracker route whose Tractive operation failed answers with the
\* HTTP status of the kind of the failure: 401 for Auth, 429 for RateLimit,
\* 502 or 504 for Network, 400 or 404 for Fatal.
C16_RouteStatusOfFailureKind ==
    \A p \in Procs :
        (route[p].name \in RouteNames /\ route[p].wait = "none"
            /\ result[p] \in TrackerErrors \cup {AuthErrMsg}
            /\ answer[p].status \in FailStatuses)
           => http[p].status \in StatusesOfKind(KindOf(answer[p].status))

\* C17: whatever the operations and the upstream outcomes, nothing the
\* service logs and no response holds the account password or the access
\* token.
C17_NoSecretLogged ==
    /\ logged \cap Secrets = {}
    /\ \A p \in Procs : http[p].error \notin Secrets

\* the sum of the elements of a sequence
RECURSIVE SumSeq(_)
SumSeq(s) == IF s = <<>> THEN 0 ELSE Head(s) + SumSeq(Tail(s))
\* the differences between the consecutive elements of a sequence
Diffs(es) == [i \in 1..(Len(es) - 1) |-> es[i + 1] - es[i]]

\* C18: calculateTrailStats called with zero or one position returns
\* distance, duration, avgSpeed, elevationGain, elevationLoss and avgGrade
\* all 0, whatever the elevations.
C18_FewerThanTwoAllZero ==
    (stats # None /\ Len(positions) < 2)
       => /\ stats[1].distance = 0 /\ stats[1].duration = 0
          /\ stats[1].avgSpeed.num = 0
          /\ stats[1].elevationGain = 0 /\ stats[1].elevationLoss = 0
          /\ stats[1].avgGrade.num = 0

\* the statistics of one position and four elevations were computed
C18_Witness ==
    /\ stats # None /\ Len(positions) = 1
    /\ elevations = Some(<<100, 150, 120, 140>>)

\* C19: with at least 2 positions and at least 2 elevations, elevationGain
\* is the sum of the positive differences of consecutive elevations and
\* elevationLoss the sum of the absolute values of the negative ones
\* ([100, 150, 120, 140] gives 70 and 30), however many positions there
\* are; with no elevations or fewer than 2, both are 0.
C19_GainAndLossSums ==
    (stats # None /\ Len(positions) >= 2)
       => IF elevations # None /\ Len(elevations[1]) >= 2
          THEN LET d == Diffs(elevations[1]) IN
               /\ stats[1].elevationGain =
                     SumSeq([i \in DOMAIN d |-> IF d[i] > 0 THEN d[i] ELSE 0])
               /\ stats[1].elevationLoss =
                     SumSeq([i \in DOMAIN d |-> IF d[i] < 0 THEN -d[i] ELSE 0])
               /\ elevations = Some(<<100, 150, 120, 140>>)
                     => /\ stats[1].elevationGain = 70
                        /\ stats[1].elevationLoss = 30
          ELSE stats[1].elevationGain = 0 /\ stats[1].elevationLoss = 0

\* the statistics of two positions and the elevations 100, 150, 120, 140
\* were computed
C19_Witness ==
    /\ stats # None /\ Len(positions) = 2
    /\ elevations = Some(<<100, 150, 120, 140>>)
    /\ stats[1].elevationGain = 70

\* C20: for at least 2 positions, duration is the timestamp of the last
\* position minus that of the first, in seconds; avgSpeed is distance /
\* duration when duration > 0, and 0 otherwise.
C20_DurationAndAvgSpeed ==
    (stats # None /\ Len(positions) >= 2)
       => LET st == stats[1]
              first == positions[1].timestamp
              last == positions[Len(positions)].timestamp
          IN  /\ st.duration = last - first
              /\ IF st.duration > 0
                 THEN st.avgSpeed.num * st.duration = st.distance * st.avgSpeed.den
                 ELSE st.avgSpeed.num = 0
              /\ st.avgSpeed.den # 0

\* the statistics of a trail that moves and takes time were computed
C20_Witness ==
    /\ stats # None /\ Len(positions) >= 2
    /\ stats[1].duration > 0 /\ stats[1].distance > 0


\* the sign of an integer
Sign(x) == IF x > 0 THEN 1 ELSE IF x < 0 THEN -1 ELSE 0

\* C21: for at least 2 positions, avgGrade is (elevationGain -
\* elevationLoss) / distance * 100 when distance > 0 and 0 when distance is
\* 0, even if the elevations differ; it is negative exactly when the loss
\* exceeds the gain and distance > 0.
C21_AvgGrade ==
    (stats # None /\ Len(positions) >= 2)
       => LET st == stats[1] IN
          /\ st.avgGrade.den > 0
          /\ IF st.distance > 0
             THEN st.avgGrade.num * st.distance =
                     (st.elevationGain - st.elevationLoss) * 100 * st.avgGrade.den
             ELSE st.avgGrade.num = 0
          /\ st.avgGrade.num < 0
                <=> (st.elevationLoss > st.elevationGain /\ st.distance > 0)

\* the statistics of positions that all lie at one place, with elevations
\* that differ, were computed
C21_Witness ==
    /\ stats # None /\ Len(positions) >= 2
    /\ stats[1].distance = 0
    /\ stats[1].elevationGain # stats[1].elevationLoss

\* C22: every TrailStats returned by calculateTrailStats, for every list of
\* positions and of elevations, has distance, duration, avgSpeed,
\* elevationGain and elevationLoss all >= 0.
C22_StatsNonNegative ==
    stats # None
       => /\ stats[1].distance >= 0
          /\ stats[1].duration >= 0
          /\ stats[1].avgSpeed.num >= 0 /\ stats[1].avgSpeed.den > 0
          /\ stats[1].elevationGain >= 0
          /\ stats[1].elevationLoss >= 0


\* C26: for at least 2 positions and at least 2 elevations, elevationGain -
\* elevationLoss is the last elevation minus the first, so that, whenever
\* distance > 0, the sign of avgGrade is the sign of the net change of
\* elevation.
C26_NetElevationChange ==
    (stats # None /\ Len(positions) >= 2
        /\ elevations # None /\ Len(elevations[1]) >= 2)
       => LET st == stats[1]
              es == elevations[1]
              net == es[Len(es)] - es[1]
          IN  /\ st.elevationGain - st.elevationLoss = net
              /\ st.distance > 0
                    => Sign(st.avgGrade.num) * Sign(st.avgGrade.den) = Sign(net)

\* the statistics of a trail that moves, climbs and descends were computed
C26_Witness ==
    /\ stats # None /\ Len(positions) >= 2 /\ stats[1].distance > 0
    /\ elevations # None /\ Len(elevations[1]) >= 3
    /\ stats[1].elevationGain > 0 /\ stats[1].elevationLoss > 0
    /\ stats[1].avgGrade.num < 0


\* C23: the delay for attempt a, 1 <= a <= MaxAttempts, is base * 2^(a-1)
\* capped at the ceiling plus a jitter in [0, that capped value), hence
\* non-negative and strictly below base * 2^a; for attempt MaxAttempts + 1
\* the policy answers "do not retry" and no further request is sent.
C23_DelayBounds ==
    /\ (attempt \in 1..MaxAttempts /\ retry = "sleeping")
          => LET capped == Min(BackoffMs * Pow2(attempt - 1), ceiling) IN
             /\ delay - capped >= 0 /\ delay - capped < capped
             /\ delay >= 0
             /\ delay < BackoffMs * Pow2(attempt)
    /\ attempt > MaxAttempts
          => /\ attempt = MaxAttempts + 1
             /\ delay = NoRetry /\ retry = "gaveUp"
    /\ retry # "idle" => requests <= 1 + Min(attempt, MaxAttempts)
    /\ retry = "gaveUp" => requests = 1 + MaxAttempts

\* the last allowed attempt is delayed by more than the ceiling
C23_Witness ==
    /\ attempt = MaxAttempts /\ retry = "sleeping"
    /\ ceiling = 1500 /\ delay > ceiling


\* C24: a successful POST /api/auth/login-tractive changes the session of
\* the auth router's own instance only: the session and the default header
\* of the instance that serves /api/trackers change only through a login
\* of that instance, so a tracker route request started while that
\* instance has no token sends a login of its own, whatever the auth router
\* has stored.
C24_LoginLeavesTrackerInstance ==
    [][/\ (authStack >= 1 /\ authStack' < authStack)
             => <<accessToken, userId, sessionExpiry, authHeader>>' =
                   <<accessToken, userId, sessionExpiry, authHeader>>
       /\ <<accessToken, userId, sessionExpiry, authHeader>>' #
             <<accessToken, userId, sessionExpiry, authHeader>>
             => \E p \in Procs : LoginInFlight(p) /\ Answered(p)
       /\ \A p \in Procs :
             (Started(p) /\ op'[p] \in TrackerOps /\ authHttp = 200
                 /\ ~(\E q \in Procs : result[q] # "none"))
                => SentLogin(p)]_vars

\* POST /login-tractive has answered 200 and the first tracker route
\* request after it has its own login in flight
C24_Witness ==
    \E p \in Procs :
        /\ authHttp = 200 /\ authSession.accessToken # Null
        /\ accessToken = Null
        /\ route[p].name = "position" /\ pending[p] = <<LoginReq>>


\* C25: under any interleaving of authenticate() calls and 401-triggered
\* retries, the default Authorization header of the instance is absent
\* while no token is stored and bears the stored token otherwise (the
\* header is modelled by the token it bears); a domain request re-sent by
\* the 401 interceptor carries the token stored at the moment of re-sending.
C25_HeaderFollowsToken ==
    /\ [](authHeader = accessToken)
    /\ [][\A p \in Procs :
            (LoginInFlight(p) /\ Len(pending[p]) >= 2 /\ Answered(p)
                /\ SentDomain(p))
               => /\ Top(pending'[p]).tok = accessToken'
                  /\ Top(pending'[p]).tok = authHeader']_vars

\* the interceptor has re-sent a domain request with the stored token after
\* a re-authentication, while the other caller has a login in flight
C25_Witness ==
    \E p \in Procs : \E q \in Procs \ {p} :
        /\ pc[p] = "busy" /\ nDomain[p] >= 2
        /\ Top(pending[p]).url # "login"
        /\ Top(pending[p]).tok = accessToken
        /\ authHeader = accessToken /\ accessToken # Null
        /\ pc[q] = "busy" /\ Top(pending[q]).url = "login"


\* C27: once the map is loaded and the position history is non-empty, the
\* trail polyline is attached to the map after the effects of every render,
\* renders in which only latestPosition changed included.
C27_TrailShown ==
    (mounted /\ isGoogleMapsLoaded /\ mapInstanceRef /\ props.positions # 0)
        => polylineRef = "current"

\* C28: after any sequence of runs of the geofence effect the map holds at
\* most one overlay, circle or polygon, per geofence of the current list.
C28_OneOverlayPerGeofence ==
    \A g \in props.geofences :
        circles[g] + (IF geofenceOverlaysRef[g] = "current" THEN 1 ELSE 0)
            <= 1


\* the alerts of a list
Alerts(list) == {list[i] : i \in 1..Len(list)}

\* C29: after any sequence of violation callbacks and timer expiries, the
\* alert list never holds two alerts of the same geofence whose position
\* timestamps differ by less than 60 seconds.
C29_NoDuplicateAlerts ==
    \A i \in 1..Len(geofenceAlerts) : \A j \in 1..Len(geofenceAlerts) :
        (i # j /\ geofenceAlerts[i].id = geofenceAlerts[j].id)
            => Abs(geofenceAlerts[i].timestamp - geofenceAlerts[j].timestamp)
                  >= AlertWindowMs

\* the list holds two alerts of one geofence, a minute apart, and a timeout
\* of that geofence is pending whose callback added no alert that is listed
C29_Witness ==
    \E i \in 1..Len(geofenceAlerts) : \E j \in 1..Len(geofenceAlerts) :
        /\ i # j /\ geofenceAlerts[i].id = geofenceAlerts[j].id
        /\ Abs(geofenceAlerts[i].timestamp - geofenceAlerts[j].timestamp)
              = AlertWindowMs
        /\ \E t \in timers :
              /\ t.id = geofenceAlerts[i].id
              /\ \A a \in Alerts(geofenceAlerts) :
                    a.at + AlertTimeoutMs # t.due

\* C30: an alert stays in the list for 30 seconds after the callback that
\* added it and is then removed: an alert leaves the list only at the step
\* 30 s after it was added, and no alert is listed later than that.
C30_AlertLivesThirtySeconds ==
    [][/\ \A a \in Alerts(geofenceAlerts) \ Alerts(geofenceAlerts') :
             Ms(clock) = a.at + AlertTimeoutMs
       /\ \A a \in Alerts(geofenceAlerts') :
             Ms(clock') <= a.at + AlertTimeoutMs]_vars

====
